---- MODULE Spec2Model ----
(***************************************************************************)
(* mostro-push-server: the token-encryption protocol (crypto/mod.rs), the  *)
(* HTTP registration handlers (api/routes.rs) and the relay listener       *)
(* (nostr/listener.rs), with the token store they share.                   *)
(***************************************************************************)
EXTENDS Integers, Sequences, FiniteSets, TLC

\* ------------------------------------------------------------------ bounds
MaxRequests == 3      \* HTTP requests in one run, each in its own handler
MaxDelivery == 2      \* of these, requests made while the listener delivers
MaxEvents == 2        \* events published on the relay in one run
MaxAttempts == 2      \* the attempt counter saturates here (it never blocks)
AgeCap == 65          \* event ages saturate here (anything above SINCE_WINDOW)

\* --------------------------------------------------- constants of the code
PLATFORM_ANDROID == 2
PLATFORM_IOS == 1
PADDED_PAYLOAD_SIZE == 220
EPHEMERAL_PUBKEY_SIZE == 33
NONCE_SIZE == 12
AUTH_TAG_SIZE == 16
ENCRYPTED_TOKEN_SIZE ==
    EPHEMERAL_PUBKEY_SIZE + NONCE_SIZE + PADDED_PAYLOAD_SIZE + AUTH_TAG_SIZE
TRADE_PUBKEY_LEN == 64   \* routes.rs: req.trade_pubkey.len() != 64
LOG_PREFIX_LEN == 16     \* &trade_pubkey[..16]
GIFT_WRAP_KIND == 1059   \* Kind::Custom(1059)
SINCE_WINDOW == 60       \* Timestamp::now() - Duration::from_secs(60)
ERROR_SLEEP == 10        \* sleep(Duration::from_secs(10)) in the Err arm
RETRY_SLEEP == 5         \* sleep(Duration::from_secs(5)) after the match

\* ------------------------------------------------------------ option type
None == [some |-> FALSE]
Some(x) == [some |-> TRUE, val |-> x]

Min(a, b) == IF a < b THEN a ELSE b

\* ---------------------------------------------------------------- Platform
Platforms == {"Android", "Ios"}

from_byte(byte) ==
    IF byte = PLATFORM_ANDROID THEN Some("Android")
    ELSE IF byte = PLATFORM_IOS THEN Some("Ios")
    ELSE None

to_byte_swapped(platform) ==
    IF platform = "Android" THEN PLATFORM_IOS ELSE PLATFORM_ANDROID
to_byte(platform) ==
    IF platform = "Android" THEN PLATFORM_ANDROID ELSE PLATFORM_IOS

\* Display for Platform
PlatformDisplay(platform) == IF platform = "Android" THEN "android" ELSE "ios"

\* ------------------------------------------------------------------- UTF-8
\* String::from_utf8: the well-formed byte sequences of UTF-8.
IsCont(b) == b >= 128 /\ b <= 191

\* The length of the sequence a byte starts: 0 for a continuation byte, 9 for
\* a byte that occurs in no well-formed sequence.
Utf8Width(b) ==
    IF b < 128 THEN 1
    ELSE IF IsCont(b) THEN 0
    ELSE IF b >= 194 /\ b <= 223 THEN 2
    ELSE IF b >= 224 /\ b <= 239 THEN 3
    ELSE IF b >= 240 /\ b <= 244 THEN 4
    ELSE 9

\* Every byte starts a complete sequence or continues the one started at most
\* three bytes before it; E0, ED, F0 and F4 restrict their second byte.
Utf8WellFormed(bytes) ==
    \A i \in 1..Len(bytes) :
        LET b == bytes[i]
            w == Utf8Width(b)
        IN  /\ w # 9
            /\ w = 0 =>
                  \E k \in 1..3 :
                      /\ i - k >= 1
                      /\ Utf8Width(bytes[i - k]) \in (k + 1)..4
                      /\ \A m \in 1..(k - 1) : IsCont(bytes[i - m])
            /\ w \in 2..4 =>
                  /\ \A m \in 1..(w - 1) : i + m <= Len(bytes) /\ IsCont(bytes[i + m])
                  /\ b = 224 => bytes[i + 1] >= 160
                  /\ b = 237 => bytes[i + 1] <= 159
                  /\ b = 240 => bytes[i + 1] >= 144
                  /\ b = 244 => bytes[i + 1] <= 143

from_utf8(bytes) == IF Utf8WellFormed(bytes) THEN Some(bytes) ELSE None

\* ---------------------------------------------------- the ECIES primitives
\* A secret scalar is a number; its public key names the scalar it came from.
\* PublicKey::from_slice accepts the 33 bytes only when they encode a point.
ServerSecret == "server"
OtherSecret == "other"
EphemeralSecret == "ephemeral"

PublicKeyOf(secret) == [valid |-> TRUE, of |-> secret]
BadPoint == [valid |-> FALSE, of |-> "none"]

\* SharedSecret::new(pubkey, secret): ECDH is symmetric in the two scalars.
SharedSecret(pubkey, secret) == {pubkey.of, secret}

\* Hkdf::<Sha256>::new(Some(HKDF_SALT), shared_x).expand(HKDF_INFO, ..)
HkdfKey(shared_x) ==
    [salt |-> "mostro-push-v1", info |-> "mostro-token-encryption", ikm |-> shared_x]

\* ChaCha20Poly1305: the ciphertext is the plaintext sealed under (key, nonce)
\* with a 16-byte tag; intact is FALSE once any bit of it was flipped.
Seal(key, nonce, plaintext) ==
    [key |-> key, nonce |-> nonce, pt |-> plaintext, intact |-> TRUE]

AeadDecrypt(key, nonce, ct) ==
    IF ct.intact /\ ct.key = key /\ ct.nonce = nonce THEN Some(ct.pt) ELSE None

CiphertextLen(ct) == Len(ct.pt) + AUTH_TAG_SIZE

\* An encrypted token blob: ephemeral_pubkey(33) || nonce(12) || ciphertext.
BlobLen(blob) == EPHEMERAL_PUBKEY_SIZE + NONCE_SIZE + CiphertextLen(blob.ct)

\* ------------------------------------------------------------ CryptoError
Err(e) == [ok |-> FALSE, err |-> e]
Ok(v) == [ok |-> TRUE, val |-> v]

\* Display for CryptoError
CryptoErrorDisplay(e) ==
    CASE e = "InvalidSecretKey" -> "Invalid secret key"
      [] e = "InvalidTokenSize" -> "Invalid encrypted token size"
      [] e = "InvalidEphemeralKey" -> "Invalid ephemeral public key"
      [] e = "HkdfError" -> "HKDF derivation failed"
      [] e = "CipherError" -> "Cipher initialization failed"
      [] e = "DecryptionFailed" -> "Decryption failed"
      [] e = "InvalidPayloadSize" -> "Invalid payload size after decryption"
      [] e = "InvalidTokenLength" -> "Invalid token length in payload"
      [] e = "InvalidPlatform" -> "Invalid platform identifier"
      [] e = "InvalidTokenEncoding" -> "Invalid token encoding"

\* line 150: token_length > PADDED_PAYLOAD_SIZE - 3
TokenLengthTooLongStrict(token_length) == token_length >= PADDED_PAYLOAD_SIZE - 3
TokenLengthTooLong(token_length) == token_length > PADDED_PAYLOAD_SIZE - 3

\* The checks on the decrypted payload, lines 137-167.
parse_payload(padded_payload) ==
    IF Len(padded_payload) # PADDED_PAYLOAD_SIZE THEN Err("InvalidPayloadSize")
    ELSE LET platform_byte == padded_payload[1]
             token_length == padded_payload[2] * 256 + padded_payload[3]
         IN  IF TokenLengthTooLong(token_length) THEN Err("InvalidTokenLength")
             ELSE IF ~from_byte(platform_byte).some THEN Err("InvalidPlatform")
             ELSE LET device_token_bytes ==
                          SubSeq(padded_payload, 4, 3 + token_length)
                      device_token == from_utf8(device_token_bytes)
                  IN  IF ~device_token.some THEN Err("InvalidTokenEncoding")
                      ELSE Ok([platform |-> from_byte(platform_byte).val,
                               device_token |-> device_token.val])

\* TokenCrypto::decrypt_token, lines 89-168: its result, and the operations
\* on key material it made on the way, in order.
decrypt_token_key_first(secret_key, encrypted_token) ==
    IF ~encrypted_token.eph.valid
    THEN [result |-> Err("InvalidEphemeralKey"), work |-> <<"PublicKey::from_slice">>]
    ELSE [result |-> Err("InvalidTokenSize"), work |-> <<"PublicKey::from_slice">>]
decrypt_token_work(secret_key, encrypted_token) ==
    IF BlobLen(encrypted_token) # ENCRYPTED_TOKEN_SIZE
    THEN [result |-> Err("InvalidTokenSize"), work |-> <<>>]
    ELSE IF ~encrypted_token.eph.valid
    THEN [result |-> Err("InvalidEphemeralKey"), work |-> <<"PublicKey::from_slice">>]
    ELSE LET shared_x == SharedSecret(encrypted_token.eph, secret_key)
             encryption_key == HkdfKey(shared_x)
             padded_payload ==
                 AeadDecrypt(encryption_key, encrypted_token.nonce, encrypted_token.ct)
             work == <<"PublicKey::from_slice", "SharedSecret::new", "Hkdf::expand",
                       "ChaCha20Poly1305::decrypt">>
         IN  IF ~padded_payload.some
             THEN [result |-> Err("DecryptionFailed"), work |-> work]
             ELSE [result |-> parse_payload(padded_payload.val), work |-> work]

\* TokenCrypto::decrypt_token with the server's secret key.
decrypt_token(secret_key, encrypted_token) ==
    decrypt_token_work(secret_key, encrypted_token).result

\* tests::create_test_encrypted_token, with the padding byte as a parameter.
PadTo(bytes, n, pad) ==
    [i \in 1..n |-> IF i <= Len(bytes) THEN bytes[i] ELSE pad]

MakePayload(platform_byte, token_length, token_bytes, n, pad) ==
    PadTo(<<platform_byte, token_length \div 256, token_length % 256>> \o token_bytes,
          n, pad)

MakeBlob(eph, sealed_to, eph_secret, nonce, payload) ==
    [eph |-> eph, nonce |-> nonce,
     ct |-> Seal(HkdfKey(SharedSecret(sealed_to, eph_secret)), nonce, payload)]

create_test_encrypted_token(server_pubkey, platform, device_token, pad) ==
    MakeBlob(PublicKeyOf(EphemeralSecret), server_pubkey, EphemeralSecret, "n1",
             MakePayload(to_byte(platform), Len(device_token), device_token,
                         PADDED_PAYLOAD_SIZE, pad))

\* ------------------------------------------------------- trade identifiers
\* A trade_pubkey string: its length in bytes, whether all its characters are
\* hex digits, and a number telling apart strings of the same shape.
TradeKey(len, hex, n) == [len |-> len, hex |-> hex, n |-> n]
KeyI == TradeKey(TRADE_PUBKEY_LEN, TRUE, 1)
KeyJ == TradeKey(TRADE_PUBKEY_LEN, TRUE, 2)
KeyShort == TradeKey(8, TRUE, 1)
KeyNotHex == TradeKey(TRADE_PUBKEY_LEN, FALSE, 1)
KeyLong == TradeKey(TRADE_PUBKEY_LEN + 2, TRUE, 1)
TradeKeys == {KeyI, KeyJ, KeyShort, KeyNotHex, KeyLong}

\* hex::decode(s).is_ok(): an even number of hex digits.
HexDecodeOk(k) == k.hex /\ k.len % 2 = 0

\* routes.rs lines 89 and 172, negated.
ValidTradePubkeyLax(k) == HexDecodeOk(k)
ValidTradePubkey(k) == ~(k.len # TRADE_PUBKEY_LEN \/ ~HexDecodeOk(k))

\* &s[..16] panics when s is shorter than 16 bytes.
SlicePanics(k) == k.len < LOG_PREFIX_LEN

\* --------------------------------------------------------- the token store
\* TokenStore (crate::store): a map from trade_pubkey to (platform,
\* device_token) behind one lock; each call is one atomic step.
Entry(platform, device_token) == [platform |-> platform, device_token |-> device_token]

StoreGet(store, id) ==
    IF \E r \in store : r.id = id
    THEN LET r == CHOOSE r \in store : r.id = id
         IN  Some(Entry(r.platform, r.device_token))
    ELSE None

StoreRegisterMerge(store, id, device_token, platform) ==
    {r \in store : r.id # id} \cup
    {[id |-> id,
      platform |-> IF StoreGet(store, id).some
                   THEN StoreGet(store, id).val.platform ELSE platform,
      device_token |-> device_token]}
StoreRegisterKeep(store, id, device_token, platform) ==
    store \cup {[id |-> id, platform |-> platform, device_token |-> device_token]}
StoreRegister(store, id, device_token, platform) ==
    {r \in store : r.id # id} \cup
    {[id |-> id, platform |-> platform, device_token |-> device_token]}

StoreUnregister(store, id) == {r \in store : r.id # id}

StoreContains(store, id) == \E r \in store : r.id = id

\* ------------------------------------------------------- request universe
TokenA == <<65>>                  \* "A"
TokenB == <<66, 195, 169>>        \* "Be" with an acute accent, 3 bytes
BadUtf8 == <<65, 255>>

GoodBlob(platform, device_token) ==
    create_test_encrypted_token(PublicKeyOf(ServerSecret), platform, device_token, 0)

CraftedBlob(platform_byte, token_length, token_bytes, n) ==
    MakeBlob(PublicKeyOf(EphemeralSecret), PublicKeyOf(ServerSecret), EphemeralSecret,
             "n1", MakePayload(platform_byte, token_length, token_bytes, n, 0))

\* The encrypted_token strings of the requests: base64 text and the bytes it
\* decodes to; any other string is not base64.
Base64Table ==
    ("b64-android-A" :> GoodBlob("Android", TokenA)) @@
    ("b64-ios-B" :> GoodBlob("Ios", TokenB)) @@
    ("b64-280-bytes" :>
        CraftedBlob(PLATFORM_ANDROID, 1, TokenA, PADDED_PAYLOAD_SIZE - 1)) @@
    ("b64-bad-point" :> [GoodBlob("Android", TokenA) EXCEPT !.eph = BadPoint]) @@
    ("b64-other-key" :>
        create_test_encrypted_token(PublicKeyOf(OtherSecret), "Android", TokenA, 0)) @@
    ("b64-tampered" :> [GoodBlob("Android", TokenA) EXCEPT !.ct.intact = FALSE]) @@
    ("b64-length-218" :>
        CraftedBlob(PLATFORM_ANDROID, PADDED_PAYLOAD_SIZE - 2, TokenA,
                    PADDED_PAYLOAD_SIZE)) @@
    ("b64-platform-3" :> CraftedBlob(3, 1, TokenA, PADDED_PAYLOAD_SIZE)) @@
    ("b64-bad-utf8" :> CraftedBlob(PLATFORM_IOS, 2, BadUtf8, PADDED_PAYLOAD_SIZE))

\* base64::engine::general_purpose::STANDARD.decode
Base64Decode(text) ==
    IF text \in DOMAIN Base64Table THEN Some(Base64Table[text]) ELSE None

GoodTokens == {"b64-android-A", "b64-ios-B"}
EncryptedTokens == DOMAIN Base64Table \cup {"not base64!"}

\* Every encrypted_token under KeyI, and one well-formed token under every key.
RegisterRequests ==
    {[trade_pubkey |-> KeyI, encrypted_token |-> t] : t \in EncryptedTokens} \cup
    {[trade_pubkey |-> k, encrypted_token |-> "b64-android-A"] : k \in TradeKeys}
UnregisterRequests == {[trade_pubkey |-> k] : k \in TradeKeys}

\* ------------------------------------------------------------- responses
Response(status, success, text, detail, platform) ==
    [status |-> status, success |-> success, text |-> text,
     detail |-> detail, platform |-> platform]

\* register_token lines 88-142: the checks made before the store is called.
\* Either the text of the 400 response to send, or the decrypted token.
register_token_checks(req) ==
    IF ~ValidTradePubkey(req.trade_pubkey)
    THEN Err(<<"Invalid trade_pubkey format (expected 64 hex characters)", "">>)
    ELSE LET encrypted_token == Base64Decode(req.encrypted_token)
         IN  IF ~encrypted_token.some
             THEN Err(<<"Invalid base64 encoding in encrypted_token", "">>)
             ELSE IF BlobLen(encrypted_token.val) # ENCRYPTED_TOKEN_SIZE
             THEN Err(<<"Invalid encrypted token size (expected bytes, got)",
                        ToString(BlobLen(encrypted_token.val))>>)
             ELSE LET decrypted == decrypt_token(ServerSecret, encrypted_token.val)
                  IN  IF ~decrypted.ok
                      THEN Err(<<"Failed to decrypt token: ",
                                 CryptoErrorDisplay(decrypted.err)>>)
                      ELSE Ok(decrypted.val)

\* ================================================================== state
VARIABLES
    tokens,            \* TokenStore: set of [id, platform, device_token]
    http,              \* per request, in arrival order: its handler's position
    nreq,              \* requests accepted so far
    invoked,           \* history: the (id, platform, device_token) given to register
    settled,           \* history: per id, the outcome of the last store call when
                       \* it overlapped no other call on that id
    push_services,     \* the configured backends, in list order
    lpc,               \* listener: position in start / connect_and_listen
    attempts,          \* listener: connect_and_listen calls made (saturating)
    waited,            \* listener: seconds slept since connect_and_listen returned
    sleeps,            \* listener: the sleeps start still has to make before looping
    result,            \* listener: how the last connect_and_listen ended
    connected,         \* listener: whether client.connect() reached the relay
    inbox,             \* notifications the relay pool holds for the handler
    event,             \* the event the closure is handling (or handled last)
    trade_pubkey,      \* recipient_pubkey of that event
    registered_token,  \* token_store.get(..) of that event
    idx,               \* position in services.iter()
    calls,             \* send_to_token calls made for that event, in order
    seen,              \* history: settled[recipient] when get ran
    relay,             \* events the relay stores: [ev, age in seconds, pending]
    npub,              \* events published so far
    wire,              \* decrypt_token alone: the encrypted token given to it
    plain,             \* the (platform, device_token) a client encrypted into it
    opened             \* what decrypt_token returned for it

storeVars == <<tokens>>
httpVars == <<http, nreq, invoked, settled>>
handlingVars == <<event, trade_pubkey, registered_token, idx, calls, seen>>
loopVars == <<lpc, attempts, waited, sleeps, result, connected, inbox>>
relayVars == <<relay, npub>>
cryptoVars == <<wire, plain, opened>>
vars == <<tokens, http, nreq, invoked, settled, push_services,
          lpc, attempts, waited, sleeps, result, connected, inbox,
          event, trade_pubkey, registered_token, idx, calls, seen, relay, npub,
          wire, plain, opened>>

\* Every request runs in its own handler task; handler h serves request h.
Handlers == 1..MaxRequests
ValidKeys == {k \in TradeKeys : ValidTradePubkey(k)}

NotArrived == [pc |-> "new"]
Pending(h) == http[h].pc \in {"register", "registered", "unregister", "unregistered"}

Fresh == [st |-> "fresh"]
Unknown == [st |-> "unknown"]
Registered(e) == [st |-> "registered", entry |-> e]
Unregistered == [st |-> "unregistered"]

\* Handler h answers without having called the store.
Reject(h, route, req, resp) ==
    /\ http' = [http EXCEPT ![h] =
                  [pc |-> "done", route |-> route, req |-> req, entry |-> None,
                   stored |-> FALSE, removed |-> FALSE, overlap |-> FALSE,
                   resp |-> resp]]
    /\ UNCHANGED settled

\* Handler h calls the store for its key: note every call it overlaps.
Invoke(h, route, req, pc, entry) ==
    LET k == req.trade_pubkey
        others == {g \in Handlers \ {h} : Pending(g) /\ http[g].req.trade_pubkey = k}
    IN  /\ http' = [g \in Handlers |->
                      IF g = h THEN [pc |-> pc, route |-> route, req |-> req,
                                     entry |-> entry, stored |-> FALSE,
                                     removed |-> FALSE, overlap |-> others # {},
                                     resp |-> None]
                      ELSE IF g \in others THEN [http[g] EXCEPT !.overlap = TRUE]
                      ELSE http[g]]
        /\ settled' = [settled EXCEPT ![k] = Unknown]

\* Handler h's store call has returned and it answers.
Complete(h, outcome, resp) ==
    /\ settled' = IF http[h].overlap THEN settled
                  ELSE [settled EXCEPT ![http[h].req.trade_pubkey] = outcome]
    /\ http' = [http EXCEPT ![h].pc = "done", ![h].resp = Some(resp),
                            ![h].overlap = FALSE]

\* ------------------------------------------------------- HTTP: /register
\* register_token up to token_store.register(..).await (lines 81-145).
register_token(req) ==
    /\ nreq < MaxRequests
    /\ nreq' = nreq + 1
    /\ LET h == nreq + 1
           checked == register_token_checks(req)
       IN  IF ~checked.ok
           THEN /\ Reject(h, "register", req,
                          Some(Response(400, FALSE, checked.err[1], checked.err[2], None)))
                /\ UNCHANGED invoked
           ELSE /\ Invoke(h, "register", req, "register",
                          Some(Entry(checked.val.platform, checked.val.device_token)))
                /\ invoked' = invoked \cup
                       {[id |-> req.trade_pubkey, platform |-> checked.val.platform,
                         device_token |-> checked.val.device_token]}
    /\ UNCHANGED <<storeVars, push_services, cryptoVars, loopVars, handlingVars, relayVars>>

\* lines 145-149: what register_token hands to token_store.register.
register_args(req, decrypted) ==
    [id |-> req.trade_pubkey, device_token |-> decrypted.device_token,
     platform |-> decrypted.platform]

\* token_store.register(trade_pubkey, device_token, platform) takes effect.
register_token_store(h) ==
    /\ http[h].pc = "register"
    /\ LET args == register_args(http[h].req, http[h].entry.val)
       IN  tokens' = StoreRegister(tokens, args.id, args.device_token, args.platform)
    /\ http' = [http EXCEPT ![h].pc = "registered", ![h].stored = TRUE]
    /\ UNCHANGED <<nreq, invoked, settled, push_services, cryptoVars, loopVars,
                   handlingVars, relayVars>>

\* lines 151-161: the call has returned, answer 200.
register_token_respond(h) ==
    /\ http[h].pc = "registered"
    /\ Complete(h, Registered(http[h].entry.val),
                Response(200, TRUE, "Token registered successfully", "",
                         Some(PlatformDisplay(http[h].entry.val.platform))))
    /\ UNCHANGED <<storeVars, nreq, invoked, push_services, cryptoVars, loopVars,
                   handlingVars,                   relayVars>>

\* ----------------------------------------------------- HTTP: /unregister
\* unregister_token up to token_store.unregister(..).await (lines 164-180).
unregister_token(req) ==
    /\ nreq < MaxRequests
    /\ nreq' = nreq + 1
    /\ LET h == nreq + 1
       IN  IF ~ValidTradePubkey(req.trade_pubkey)
           THEN Reject(h, "unregister", req,
                       Some(Response(400, FALSE,
                            "Invalid trade_pubkey format (expected 64 hex characters)",
                            "", None)))
           ELSE Invoke(h, "unregister", req, "unregister", None)
    /\ UNCHANGED <<storeVars, invoked, push_services, cryptoVars, loopVars, handlingVars, relayVars>>

\* token_store.unregister(&trade_pubkey) takes effect.
unregister_token_store(h) ==
    /\ http[h].pc = "unregister"
    /\ tokens' = StoreUnregister(tokens, http[h].req.trade_pubkey)
    /\ http' = [http EXCEPT ![h].pc = "unregistered", ![h].stored = TRUE,
                            ![h].removed = StoreContains(tokens, http[h].req.trade_pubkey)]
    /\ UNCHANGED <<nreq, invoked, settled, push_services, cryptoVars, loopVars,
                   handlingVars, relayVars>>

\* lines 182-192: 200 in both cases.
unregister_response_404(removed) ==
    IF removed THEN Response(200, TRUE, "Token unregistered successfully", "", None)
    ELSE Response(404, FALSE,
                  "Token not found (may have already been unregistered)", "", None)
unregister_response(removed) ==
    IF removed THEN Response(200, TRUE, "Token unregistered successfully", "", None)
    ELSE Response(200, TRUE,
                  "Token not found (may have already been unregistered)", "", None)

unregister_token_respond(h) ==
    /\ http[h].pc = "unregistered"
    /\ Complete(h, Unregistered, unregister_response(http[h].removed))
    /\ UNCHANGED <<storeVars, nreq, invoked, push_services, cryptoVars, loopVars,
                   handlingVars,                   relayVars>>

\* ========================================================= the relay side
MostroPubkey == "mostro"

Tags == { <<<<"p", KeyI>>>>,
          <<<<"p", KeyJ>>>>,
          <<>>,
          <<<<"p", KeyShort>>>>,
          <<<<"e", KeyJ>>, <<"p">>, <<"p", KeyI>>, <<"p", KeyJ>>>> }

EventShapes ==
    {[kind |-> GIFT_WRAP_KIND, author |-> MostroPubkey, tags |-> t] : t \in Tags}
    \cup {[kind |-> 1, author |-> MostroPubkey, tags |-> <<<<"p", KeyI>>>>],
          [kind |-> GIFT_WRAP_KIND, author |-> "stranger", tags |-> <<<<"p", KeyI>>>>]}

\* Filter::new().kinds([1059]).author(mostro_pubkey).since(now - 60), as the
\* relay applies it to an event it stores: created_at >= since is age <= 60.
MatchesFilterNoSince(stored) ==
    /\ stored.ev.kind = GIFT_WRAP_KIND
    /\ stored.ev.author = MostroPubkey
MatchesFilter(stored) ==
    /\ stored.ev.kind = GIFT_WRAP_KIND
    /\ stored.ev.author = MostroPubkey
    /\ stored.age <= SINCE_WINDOW

RECURSIVE Replay(_)
Replay(stored) ==
    IF stored = <<>> THEN <<>>
    ELSE (IF MatchesFilter(Head(stored)) THEN <<Head(stored).ev>> ELSE <<>>)
         \o Replay(Tail(stored))

\* history: pending is TRUE for a stored event until the relay has sent it
\* to the listener, live or in a replay.
MarkReplayed(stored) ==
    [i \in 1..Len(stored) |->
        IF MatchesFilter(stored[i]) THEN [stored[i] EXCEPT !.pending = FALSE]
        ELSE stored[i]]

Elapse(stored, seconds) ==
    [i \in 1..Len(stored) |->
        [stored[i] EXCEPT !.age = Min(stored[i].age + seconds, AgeCap)]]

\* ============================================================ the listener
\* services: Vec<Box<dyn PushService>>; a backend declares its platforms.
Service(name, platforms) == [name |-> name, platforms |-> platforms]
supports_platform(service, platform) == platform \in service.platforms

ServiceConfigs ==
    { <<Service("fcm", {"Android"}), Service("unifiedpush", {"Android", "Ios"}),
        Service("apns", {"Ios"})>>,
      <<Service("fcm", {"Android"})>> }

\* The spec's state names, read off the listener's position.
ListenerState ==
    IF lpc = "connecting" THEN "Connecting"
    ELSE IF lpc \in {"listening", "lookup", "sending"} THEN "Subscribed"
    ELSE IF lpc = "panicked" THEN "Panicked"
    ELSE "Disconnected"

\* lines 97-105: the first tag with two or more elements whose first is "p".
IsRecipientTag(tag_vec) == Len(tag_vec) >= 2 /\ tag_vec[1] = "p"

recipient_pubkey_last(tags) ==
    LET hits == {i \in 1..Len(tags) : IsRecipientTag(tags[i])}
    IN  IF hits = {} THEN None
        ELSE Some(tags[CHOOSE i \in hits : \A j \in hits : i >= j][2])
recipient_pubkey(tags) ==
    LET hits == {i \in 1..Len(tags) : IsRecipientTag(tags[i])}
    IN  IF hits = {} THEN None
        ELSE Some(tags[CHOOSE i \in hits : \A j \in hits : i <= j][2])

\* line 93: the closure's own kind check.
IsGiftWrapAny(ev) == TRUE
IsGiftWrap(ev) == ev.kind = GIFT_WRAP_KIND

\* lines 126-132: after a send, break on Ok, go on to the next service on Err.
AfterSendNoBreak(ok, i) == [done |-> FALSE, idx |-> i + 1]
AfterSendStopOnErr(ok, i) == [done |-> TRUE, idx |-> i]
AfterSend(ok, i) == IF ok THEN [done |-> TRUE, idx |-> i] ELSE [done |-> FALSE, idx |-> i + 1]

\* start, lines 44-53: which sleeps follow how connect_and_listen returned.
SleepsAfterAlways(res) == <<ERROR_SLEEP, RETRY_SLEEP>>
SleepsAfter(res) ==
    IF res = "closed" THEN <<RETRY_SLEEP>> ELSE <<ERROR_SLEEP, RETRY_SLEEP>>

\* start line 43: loop { .. } has no break, whatever connect_and_listen returned.
LoopAgainUnlessError(res) == res = "closed"
LoopAgain(res) == TRUE

SettledOf(k) == IF k \in DOMAIN settled THEN settled[k] ELSE Fresh

\* ---------------------------------------------------- start: the retry loop
\* start line 44: the loop calls connect_and_listen.
start_connect ==
    /\ lpc = "start"
    /\ lpc' = "connecting"
    /\ attempts' = Min(attempts + 1, MaxAttempts)
    /\ UNCHANGED <<waited, sleeps, result, connected, inbox>>
    /\ UNCHANGED <<storeVars, httpVars, push_services, cryptoVars, handlingVars, relayVars>>

\* connect_and_listen has returned res: the match of lines 44-52.
Returned(res) ==
    /\ result' = res
    /\ waited' = 0
    /\ sleeps' = SleepsAfter(res)
    /\ lpc' = "sleeping"
    /\ connected' = FALSE
    /\ inbox' = <<>>

\* line 66: client.add_relay(..).await? fails for some relay.
add_relay_fails ==
    /\ lpc = "connecting"
    /\ Returned("connect_error")
    /\ UNCHANGED attempts
    /\ UNCHANGED <<storeVars, httpVars, push_services, cryptoVars, handlingVars, relayVars>>

\* lines 71-84: connect() and subscribe() return nothing to check; whether the
\* relay was reached or not, the listener goes on to handle_notifications.
subscribe(reached) ==
    /\ lpc = "connecting"
    /\ lpc' = "listening"
    /\ connected' = reached
    /\ inbox' = IF reached THEN Replay(relay) ELSE <<>>
    /\ relay' = IF reached THEN MarkReplayed(relay) ELSE relay
    /\ UNCHANGED <<attempts, waited, sleeps, result, npub>>
    /\ UNCHANGED <<storeVars, httpVars, push_services, cryptoVars, handlingVars>>

\* lines 90-148: handle_notifications returns, Ok(()) or Err through the ?.
stream_ends(res) ==
    /\ lpc = "listening"
    /\ Returned(res)
    /\ UNCHANGED attempts
    /\ UNCHANGED <<storeVars, httpVars, push_services, cryptoVars, handlingVars, relayVars>>

\* lines 50 and 53: the next sleep of the loop; after the last one, loop.
sleep ==
    /\ lpc = "sleeping"
    /\ sleeps # <<>>
    /\ waited' = waited + Head(sleeps)
    /\ sleeps' = Tail(sleeps)
    /\ relay' = Elapse(relay, Head(sleeps))
    /\ lpc' = IF Tail(sleeps) # <<>> THEN "sleeping"
              ELSE IF LoopAgain(result) THEN "start" ELSE "stopped"
    /\ UNCHANGED <<attempts, result, connected, inbox, npub>>
    /\ UNCHANGED <<storeVars, httpVars, push_services, cryptoVars, handlingVars>>

\* ------------------------------------------------------------ relay events
\* Somebody publishes an event. The relay stores it; a subscribed listener
\* gets it whatever its kind or author (relays are not trusted to filter).
publish(shape) ==
    /\ npub < MaxEvents
    /\ npub' = npub + 1
    /\ LET live == ListenerState = "Subscribed" /\ connected
       IN  /\ relay' = Append(relay, [ev |-> shape, age |-> 0, pending |-> ~live])
           /\ inbox' = IF live THEN Append(inbox, shape) ELSE inbox
    /\ UNCHANGED <<lpc, attempts, waited, sleeps, result, connected>>
    /\ UNCHANGED <<storeVars, httpVars, push_services, cryptoVars, handlingVars>>

\* Time passes outside the listener's sleeps.
tick ==
    /\ \E i \in 1..Len(relay) : relay[i].age < AgeCap
    /\ relay' = Elapse(relay, RETRY_SLEEP)
    /\ UNCHANGED npub
    /\ UNCHANGED <<storeVars, httpVars, push_services, cryptoVars, loopVars, handlingVars>>

\* ------------------------------------------------- the notification closure
\* handle_notifications awaits the closure's future for one notification
\* before it takes the next one from the pool.
closure_detached(pc) == pc \in {"listening", "sending"}
closure_returned(pc) == pc = "listening"

\* lines 92-108: take the next notification up to the store lookup.
handle_notification ==
    /\ closure_returned(lpc)
    /\ inbox # <<>>
    /\ LET ev == Head(inbox)
           recipient == recipient_pubkey(ev.tags)
       IN  /\ event' = Some(ev)
           /\ inbox' = Tail(inbox)
           /\ registered_token' = None
           /\ seen' = Fresh
           /\ idx' = 0
           /\ calls' = <<>>
           /\ IF ~IsGiftWrap(ev) \/ ~recipient.some
              THEN /\ trade_pubkey' = None
                   /\ lpc' = "listening"
              ELSE /\ trade_pubkey' = recipient
                   /\ lpc' = IF SlicePanics(recipient.val) THEN "panicked" ELSE "lookup"
    /\ UNCHANGED <<attempts, waited, sleeps, result, connected>>
    /\ UNCHANGED <<storeVars, httpVars, push_services, cryptoVars, relayVars>>

\* lines 111 and 136-138: if let Some(registered_token) = .. { .. } else { .. }
after_lookup_always(found) == [pc |-> "sending", idx |-> 1]
after_lookup(found) ==
    IF found.some THEN [pc |-> "sending", idx |-> 1]
    ELSE [pc |-> "listening", idx |-> 0]

\* line 111: token_store.get(&trade_pubkey).await, then services.lock().await.
lookup ==
    /\ lpc = "lookup"
    /\ registered_token' = StoreGet(tokens, trade_pubkey.val)
    /\ seen' = SettledOf(trade_pubkey.val)
    /\ lpc' = after_lookup(registered_token').pc
    /\ idx' = after_lookup(registered_token').idx
    /\ UNCHANGED <<attempts, waited, sleeps, result, connected, inbox>>
    /\ UNCHANGED <<event, trade_pubkey, calls>>
    /\ UNCHANGED <<storeVars, httpVars, push_services, cryptoVars, relayVars>>

\* line 121: the service does not support the platform, on to the next.
service_skipped ==
    /\ lpc = "sending"
    /\ idx <= Len(push_services)
    /\ ~supports_platform(push_services[idx], registered_token.val.platform)
    /\ idx' = idx + 1
    /\ UNCHANGED <<loopVars, event, trade_pubkey, registered_token, calls, seen>>
    /\ UNCHANGED <<storeVars, httpVars, push_services, cryptoVars, relayVars>>

\* lines 122-125: the arguments of send_to_token.
send_args_android(registered) ==
    [device_token |-> registered.device_token, platform |-> "Android"]
send_args(registered) ==
    [device_token |-> registered.device_token, platform |-> registered.platform]

\* lines 122-133: send_to_token(device_token, platform).await on the service.
send_to_token(accepted) ==
    /\ lpc = "sending"
    /\ idx <= Len(push_services)
    /\ supports_platform(push_services[idx], registered_token.val.platform)
    /\ calls' = Append(calls, [service |-> idx, ok |-> accepted,
                               args |-> send_args(registered_token.val)])
    /\ LET next == AfterSend(accepted, idx)
       IN  /\ idx' = next.idx
           /\ lpc' = IF next.done THEN "listening" ELSE "sending"
    /\ UNCHANGED <<attempts, waited, sleeps, result, connected, inbox>>
    /\ UNCHANGED <<event, trade_pubkey, registered_token, seen>>
    /\ UNCHANGED <<storeVars, httpVars, push_services, cryptoVars, relayVars>>

\* line 135: services.iter() is exhausted; the closure returns Ok(false).
services_exhausted ==
    /\ lpc = "sending"
    /\ idx > Len(push_services)
    /\ lpc' = "listening"
    /\ UNCHANGED <<attempts, waited, sleeps, result, connected, inbox>>
    /\ UNCHANGED handlingVars
    /\ UNCHANGED <<storeVars, httpVars, push_services, cryptoVars, relayVars>>

\* ========================================================== specification
Init ==
    /\ tokens = {}
    /\ http = [h \in Handlers |-> NotArrived]
    /\ nreq = 0
    /\ invoked = {}
    /\ settled = [k \in ValidKeys |-> Fresh]
    /\ push_services \in ServiceConfigs
    /\ lpc = "start"
    /\ attempts = 0
    /\ waited = 0
    /\ sleeps = <<>>
    /\ result = "none"
    /\ connected = FALSE
    /\ inbox = <<>>
    /\ event = None
    /\ trade_pubkey = None
    /\ registered_token = None
    /\ idx = 0
    /\ calls = <<>>
    /\ seen = Fresh
    /\ relay = <<>>
    /\ npub = 0
    /\ wire = None
    /\ plain = None
    /\ opened = None

Next ==
    \/ \E req \in RegisterRequests : register_token(req)
    \/ \E h \in Handlers : register_token_store(h)
    \/ \E h \in Handlers : register_token_respond(h)
    \/ \E req \in UnregisterRequests : unregister_token(req)
    \/ \E h \in Handlers : unregister_token_store(h)
    \/ \E h \in Handlers : unregister_token_respond(h)
    \/ start_connect
    \/ add_relay_fails
    \/ \E reached \in BOOLEAN : subscribe(reached)
    \/ \E res \in {"closed", "stream_error"} : stream_ends(res)
    \/ sleep
    \/ \E shape \in EventShapes : publish(shape)
    \/ tick
    \/ handle_notification
    \/ lookup
    \/ service_skipped
    \/ \E accepted \in BOOLEAN : send_to_token(accepted)
    \/ services_exhausted

Spec == Init /\ [][Next]_vars

\* The request handlers alone, over every request shape.
NextApi ==
    \/ \E req \in RegisterRequests : register_token(req)
    \/ \E h \in Handlers : register_token_store(h)
    \/ \E h \in Handlers : register_token_respond(h)
    \/ \E req \in UnregisterRequests : unregister_token(req)
    \/ \E h \in Handlers : unregister_token_store(h)
    \/ \E h \in Handlers : unregister_token_respond(h)

SpecApi == Init /\ [][NextApi]_vars

\* Registration, unregistration and delivery: well-formed requests and the
\* listener's closure on one session that stays up.
DeliveryRegister ==
    {r \in RegisterRequests :
        \/ r.trade_pubkey = KeyI /\ r.encrypted_token \in GoodTokens
        \/ r.trade_pubkey = KeyJ /\ r.encrypted_token = "b64-android-A"}
DeliveryUnregister == {r \in UnregisterRequests : r.trade_pubkey = KeyI}
DeliveryShapes ==
    {e \in EventShapes : e.author = MostroPubkey /\ e.tags \in {<<<<"p", KeyI>>>>, <<>>}}

NextDelivery ==
    \/ nreq < MaxDelivery /\ \E req \in DeliveryRegister : register_token(req)
    \/ \E h \in Handlers : register_token_store(h)
    \/ \E h \in Handlers : register_token_respond(h)
    \/ nreq < MaxDelivery /\ \E req \in DeliveryUnregister : unregister_token(req)
    \/ \E h \in Handlers : unregister_token_store(h)
    \/ \E h \in Handlers : unregister_token_respond(h)
    \/ start_connect
    \/ \E reached \in BOOLEAN : subscribe(reached)
    \/ \E shape \in DeliveryShapes : publish(shape)
    \/ handle_notification
    \/ lookup
    \/ service_skipped
    \/ \E accepted \in BOOLEAN : send_to_token(accepted)
    \/ services_exhausted

SpecDelivery == Init /\ [][NextDelivery]_vars

\* The listener's life against the relay, with the clock: no HTTP requests.
ListenerShapes ==
    {e \in EventShapes :
        e.author = MostroPubkey /\ e.tags = <<<<"p", KeyI>>>>}

NextListener ==
    \/ start_connect
    \/ add_relay_fails
    \/ \E reached \in BOOLEAN : subscribe(reached)
    \/ \E res \in {"closed", "stream_error"} : stream_ends(res)
    \/ sleep
    \/ \E shape \in ListenerShapes : publish(shape)
    \/ tick
    \/ handle_notification
    \/ lookup

SpecListener == Init /\ [][NextListener]_vars

\* The listener task is scheduled: a call it is about to make is made, and a
\* sleep it has started ends.
FairSpecListener == SpecListener /\ WF_vars(start_connect) /\ WF_vars(sleep)

\* The closure's reading of an event: every tag list, on one session.
ExtractTags ==
    Tags \cup { <<<<"p">>>>,
                <<<<"e", KeyI>>>>,
                <<<<"p", KeyNotHex>>>>,
                <<<<"p", KeyLong>>>>,
                <<<<"p", KeyJ>>, <<"p", KeyI>>>>,
                <<<<"p">>, <<"e", KeyI>>, <<"p", KeyJ, "wss://relay">>>> }
ExtractShapes ==
    EventShapes \cup
    {[kind |-> GIFT_WRAP_KIND, author |-> MostroPubkey, tags |-> t] : t \in ExtractTags}

NextExtract ==
    \/ start_connect
    \/ \E reached \in BOOLEAN : subscribe(reached)
    \/ \E shape \in ExtractShapes : publish(shape)
    \/ handle_notification
    \/ lookup

SpecExtract == Init /\ [][NextExtract]_vars

\* decrypt_token on its own: a client's encrypted token, or bytes made up by
\* whoever posts to /register, handed to decrypt_token.
Token217 == [i \in 1..(PADDED_PAYLOAD_SIZE - 3) |-> 65]
DeviceTokens == {<<>>, TokenA, TokenB, Token217}
Paddings == {0, 128, 255}
PlatformBytes == {0, PLATFORM_IOS, PLATFORM_ANDROID, 3}
LengthFields ==
    {0, 1, 2, 3, PADDED_PAYLOAD_SIZE - 3, PADDED_PAYLOAD_SIZE - 2,
     PADDED_PAYLOAD_SIZE - 1, 256 * 256 - 1}
PayloadSizes ==
    {PADDED_PAYLOAD_SIZE - 1, PADDED_PAYLOAD_SIZE, PADDED_PAYLOAD_SIZE + 1}

serverVars ==
    <<storeVars, httpVars, push_services, loopVars, handlingVars, relayVars>>

\* tests::create_test_encrypted_token(&server_pubkey, platform, device_token)
encrypt(platform, device_token, pad) ==
    /\ wire = None
    /\ wire' = Some(create_test_encrypted_token(PublicKeyOf(ServerSecret), platform,
                                                device_token, pad))
    /\ plain' = Some([platform |-> platform, device_token |-> device_token])
    /\ UNCHANGED <<opened, serverVars>>

\* Bytes whose outer layer is wrong: the point, the key sealed to, the tag,
\* the total length.
forge_blob(eph, sealed_to, intact, n) ==
    /\ wire = None
    /\ wire' = Some([MakeBlob(eph, PublicKeyOf(sealed_to), EphemeralSecret, "n1",
                              MakePayload(PLATFORM_ANDROID, 1, TokenA, n, 0))
                        EXCEPT !.ct.intact = intact])
    /\ UNCHANGED <<plain, opened, serverVars>>

\* A well-sealed token around a payload of any content.
forge_payload(platform_byte, token_length, token_bytes, pad) ==
    /\ wire = None
    /\ wire' = Some(MakeBlob(PublicKeyOf(EphemeralSecret), PublicKeyOf(ServerSecret),
                             EphemeralSecret, "n1",
                             MakePayload(platform_byte, token_length, token_bytes,
                                         PADDED_PAYLOAD_SIZE, pad)))
    /\ UNCHANGED <<plain, opened, serverVars>>

\* crypto.decrypt_token(&encrypted_token)
decrypt ==
    /\ wire.some
    /\ ~opened.some
    /\ opened' = Some(decrypt_token_work(ServerSecret, wire.val))
    /\ UNCHANGED <<wire, plain, serverVars>>

NextCrypto ==
    \/ \E platform \in Platforms, device_token \in DeviceTokens, pad \in Paddings :
          encrypt(platform, device_token, pad)
    \/ \E eph \in {PublicKeyOf(EphemeralSecret), BadPoint},
          sealed_to \in {ServerSecret, OtherSecret},
          intact \in BOOLEAN, n \in PayloadSizes :
          forge_blob(eph, sealed_to, intact, n)
    \/ \E platform_byte \in PlatformBytes, token_length \in LengthFields,
          token_bytes \in DeviceTokens \cup {BadUtf8}, pad \in Paddings :
          forge_payload(platform_byte, token_length, token_bytes, pad)
    \/ decrypt

SpecCrypto == Init /\ [][NextCrypto]_vars

\* ================================================================= claims
\* The services of the configured list that serve a platform.
Eligible(platform) ==
    {i \in 1..Len(push_services) : platform \in push_services[i].platforms}

HasPTag(tags) == \E i \in 1..Len(tags) : Len(tags[i]) >= 2 /\ tags[i][1] = "p"

Called == {calls[i].service : i \in 1..Len(calls)}

\* C1: once a registration of (A, P) under I has completed, handling a
\* kind-1059 event whose p tag is I calls send_to_token with exactly (A, P),
\* and exactly once when one backend supports P; once unregister(I) has
\* completed, handling the event again makes no call.
C1_EndToEnd ==
    (lpc = "listening" /\ event.some /\ trade_pubkey.some) =>
        /\ seen.st = "registered" =>
              /\ \A i \in 1..Len(calls) : calls[i].args = seen.entry
              /\ calls # <<>> \/ Eligible(seen.entry.platform) = {}
              /\ Cardinality(Eligible(seen.entry.platform)) = 1 =>
                    /\ Len(calls) = 1
                    /\ calls[1].service \in Eligible(seen.entry.platform)
        /\ seen.st = "unregistered" => calls = <<>>

C1_Witness ==
    /\ lpc = "listening"
    /\ trade_pubkey = Some(KeyI)
    /\ seen.st = "unregistered"
    /\ calls = <<>>
    /\ inbox = <<>>
    /\ Len(relay) = 2
    /\ relay[1].ev = relay[2].ev
    /\ \E h \in Handlers :
          /\ http[h].pc = "done"
          /\ http[h].route = "unregister"
          /\ http[h].resp.val.text = "Token unregistered successfully"

\* C2: the services are asked in list order, none that supports the platform
\* is passed over, and none is asked after one that reported success: at most
\* one send_to_token succeeds per handled event.
C2_FirstSuccessStops ==
    /\ \A i, j \in 1..Len(calls) :
          i < j => calls[i].service < calls[j].service /\ ~calls[i].ok
    /\ Cardinality({i \in 1..Len(calls) : calls[i].ok}) <= 1
    /\ \A j \in 1..Len(calls) :
          \A k \in Eligible(calls[j].args.platform) :
              k < calls[j].service => \E i \in 1..(j - 1) : calls[i].service = k

C2_Witness ==
    /\ lpc = "listening"
    /\ Len(calls) = 1
    /\ calls[1].ok
    /\ \E k \in Eligible(calls[1].args.platform) : k > calls[1].service

\* C3: send_to_token is called only for a kind-1059 event with a p tag whose
\* recipient the store returned an entry for, only on a service that supports
\* the entry's platform, and with the entry's device_token and platform; an
\* event of another kind, without p tag or missing in the store causes no call.
C3_SendOnlyOnHit ==
    /\ calls # <<>> =>
          /\ event.some
          /\ event.val.kind = GIFT_WRAP_KIND
          /\ HasPTag(event.val.tags)
          /\ trade_pubkey.some
          /\ \E i \in 1..Len(event.val.tags) :
                /\ Len(event.val.tags[i]) >= 2
                /\ event.val.tags[i][1] = "p"
                /\ event.val.tags[i][2] = trade_pubkey.val
          /\ registered_token.some
          /\ \E r \in invoked :
                /\ r.id = trade_pubkey.val
                /\ Entry(r.platform, r.device_token) = registered_token.val
          /\ \A i \in 1..Len(calls) :
                /\ calls[i].args = registered_token.val
                /\ calls[i].service \in Eligible(registered_token.val.platform)
    /\ (/\ lpc = "listening"
        /\ event.some
        /\ \/ event.val.kind # GIFT_WRAP_KIND
           \/ ~HasPTag(event.val.tags)
           \/ ~registered_token.some) => calls = <<>>

C3_Witness ==
    /\ lpc = "listening"
    /\ calls # <<>>
    /\ inbox # <<>>
    /\ Head(inbox).kind # GIFT_WRAP_KIND

\* C4: when a send fails the next service that supports the platform is
\* asked; when all of them have failed, or there is none, the handling ends:
\* no service is asked twice, the closure returns normally, and the listener
\* is still subscribed, with its other notifications untouched.
C4_Handled ==
    (lpc = "listening" /\ registered_token.some) =>
        /\ \/ calls # <<>> /\ calls[Len(calls)].ok
           \/ Called = Eligible(registered_token.val.platform)
        /\ \A i, j \in 1..Len(calls) : calls[i].service = calls[j].service => i = j

C4_Step ==
    lpc = "sending" =>
        /\ lpc' \in {"sending", "listening"}
        /\ result' = result
        /\ lpc' = "listening" => inbox' = inbox

C4_FailuresDropped == [](C4_Handled) /\ [][C4_Step]_vars

C4_Witness ==
    /\ lpc = "listening"
    /\ Len(calls) = 2
    /\ ~calls[1].ok /\ ~calls[2].ok
    /\ inbox # <<>>

\* C5: Disconnected is never terminal: whatever failures and stream ends led
\* there, the listener makes a further connection attempt.
C5_AlwaysRetries == (ListenerState = "Disconnected") ~> (lpc = "connecting")

C5_Witness ==
    /\ lpc = "connecting"
    /\ attempts = MaxAttempts
    /\ result = "connect_error"
    /\ relay # <<>>

\* C6: after a connection attempt that failed before subscribing, the
\* listener has waited 10 seconds in total when it makes its next attempt.
C6_TenSeconds ==
    (lpc = "connecting" /\ result = "connect_error") => waited = 10

Wanted(stored) ==
    /\ stored.ev.kind = GIFT_WRAP_KIND
    /\ stored.ev.author = MostroPubkey

\* C8 (as stated): every matching event published while the listener was not
\* subscribed has been handed to it once it is subscribed again.
C8_NothingMissed ==
    (ListenerState = "Subscribed" /\ connected) =>
        \A i \in 1..Len(relay) : Wanted(relay[i]) => ~relay[i].pending

\* C8 (amended): when the listener subscribes, the relay replays exactly the
\* matching events published at most 60 seconds earlier; a matching event it
\* missed and that is older than that is not replayed by this subscription.
C8_Replayed ==
    (lpc = "connecting" /\ lpc' = "listening" /\ connected') =>
        LET window == {i \in 1..Len(relay) : Wanted(relay[i]) /\ relay[i].age <= 60}
        IN  /\ Len(inbox') = Cardinality(window)
            /\ \A i \in window : \E j \in 1..Len(inbox') : inbox'[j] = relay[i].ev
            /\ \A i \in 1..Len(relay) \ window : relay'[i].pending = relay[i].pending

C8_Missed ==
    (ListenerState = "Subscribed" /\ connected) =>
        \A i \in 1..Len(relay) :
            (Wanted(relay[i]) /\ relay[i].pending) => relay[i].age > 60

C8_ReplayWindow == [](C8_Missed) /\ [][C8_Replayed]_vars

C8_Witness ==
    /\ ListenerState = "Subscribed"
    /\ connected
    /\ result = "connect_error"
    /\ event = None
    /\ inbox = <<>>
    /\ \E i \in 1..Len(relay) :
          Wanted(relay[i]) /\ relay[i].pending /\ relay[i].age > 60

\* What the claim calls a failing request, read off the request itself.
WellFormedKey(k) == k.len = 64 /\ k.hex

FailingRequest(route, req) ==
    \/ ~WellFormedKey(req.trade_pubkey)
    \/ /\ route = "register"
       /\ LET blob == Base64Decode(req.encrypted_token)
          IN  \/ ~blob.some
              \/ BlobLen(blob.val) # 281
              \/ ~decrypt_token(ServerSecret, blob.val).ok

\* C9: a registration request that fails (identifier, base64, size or
\* decryption) and an unregistration request with a malformed identifier are
\* answered 400 without a store call and leave the registry as it was;
\* register is called only with what decrypt_token returned as Ok.
C9_Rejected ==
    /\ \A h \in Handlers :
          (http[h].pc # "new" /\ FailingRequest(http[h].route, http[h].req)) =>
              /\ http[h].pc = "done"
              /\ ~http[h].stored
              /\ http[h].resp.val.status = 400
              /\ ~http[h].resp.val.success
    /\ \A t \in tokens \cup invoked :
          \E h \in Handlers :
              /\ http[h].pc # "new"
              /\ http[h].route = "register"
              /\ ~FailingRequest("register", http[h].req)
              /\ http[h].req.trade_pubkey = t.id
              /\ LET decrypted ==
                       decrypt_token(ServerSecret,
                                     Base64Decode(http[h].req.encrypted_token).val)
                 IN  /\ decrypted.val.platform = t.platform
                     /\ decrypted.val.device_token = t.device_token

C9_Step ==
    /\ (nreq' # nreq /\ FailingRequest(http'[nreq'].route, http'[nreq'].req)) =>
          tokens' = tokens /\ invoked' = invoked
    /\ tokens' # tokens =>
          \E h \in Handlers :
              /\ http[h].pc \in {"register", "unregister"}
              /\ http'[h].stored
              /\ ~FailingRequest(http[h].route, http[h].req)

C9_FailuresLeaveRegistry == [](C9_Rejected) /\ [][C9_Step]_vars

C9_Witness ==
    /\ tokens # {}
    /\ \E h \in Handlers :
          /\ http[h].pc = "done"
          /\ http[h].route = "register"
          /\ http[h].resp.val.text = "Failed to decrypt token: "
    /\ \E h \in Handlers :
          /\ http[h].pc = "done"
          /\ http[h].route = "unregister"
          /\ http[h].resp.val.status = 400

\* C10: what the listener's get returned is a pair some register call was
\* given for that identifier, both fields from the same call; it is nothing
\* when the last store call on the identifier was a completed unregister, and
\* the registered pair when it was a completed register.
C10_Linearizable ==
    (trade_pubkey.some /\ lpc \in {"sending", "listening"}) =>
        /\ registered_token.some =>
              [id |-> trade_pubkey.val,
               platform |-> registered_token.val.platform,
               device_token |-> registered_token.val.device_token] \in invoked
        /\ seen.st \in {"fresh", "unregistered"} => ~registered_token.some
        /\ seen.st = "registered" => registered_token = Some(seen.entry)

C10_Witness ==
    /\ lpc = "sending"
    /\ registered_token.some
    /\ seen = Unknown
    /\ \E g, h \in Handlers :
          /\ http[g].pc = "registered"
          /\ http[h].pc = "register"
          /\ http[g].req.trade_pubkey = trade_pubkey.val
          /\ http[h].req.trade_pubkey = trade_pubkey.val
          /\ http[g].entry # http[h].entry
          /\ registered_token = http[g].entry

\* The registry's entries for one identifier.
EntriesOf(store, id) == {t \in store : t.id = id}

\* C11: the registry holds at most one entry per identifier, and once a
\* registration for an identifier has completed with no other store call on
\* that identifier since, the entry is exactly its (platform, device_token).
C11_LastWriteWins ==
    \A k \in ValidKeys :
        /\ Cardinality(EntriesOf(tokens, k)) <= 1
        /\ settled[k].st = "registered" =>
              EntriesOf(tokens, k) =
                  {[id |-> k, platform |-> settled[k].entry.platform,
                    device_token |-> settled[k].entry.device_token]}

C11_Witness ==
    /\ settled[KeyI].st = "registered"
    /\ \E g, h \in Handlers :
          /\ g < h
          /\ http[g].pc = "done" /\ http[g].route = "register" /\ http[g].stored
          /\ http[h].pc = "done" /\ http[h].route = "register" /\ http[h].stored
          /\ http[g].req.trade_pubkey = KeyI
          /\ http[h].req.trade_pubkey = KeyI
          /\ http[g].entry.val.platform # http[h].entry.val.platform
          /\ http[g].entry.val.device_token # http[h].entry.val.device_token
          /\ settled[KeyI].entry = http[h].entry.val

\* C12: an unregister reports "removed" exactly when the entry was present,
\* leaves the identifier absent and the other entries alone, changes nothing
\* when the entry was absent, and is answered 200 with success in both cases;
\* after a completed unregister the identifier is absent, so the next
\* unregister reports not found.
C12_Answered ==
    /\ \A h \in Handlers :
          (/\ http[h].pc = "done"
           /\ http[h].route = "unregister"
           /\ WellFormedKey(http[h].req.trade_pubkey)) =>
              /\ http[h].resp.val.status = 200
              /\ http[h].resp.val.success
              /\ http[h].resp.val.text =
                    IF http[h].removed
                    THEN "Token unregistered successfully"
                    ELSE "Token not found (may have already been unregistered)"
    /\ \A k \in ValidKeys :
          settled[k].st = "unregistered" => EntriesOf(tokens, k) = {}

C12_Step ==
    \A h \in Handlers :
        (http[h].pc = "unregister" /\ http'[h].pc = "unregistered") =>
            LET k == http[h].req.trade_pubkey
            IN  /\ http'[h].removed = (EntriesOf(tokens, k) # {})
                /\ EntriesOf(tokens', k) = {}
                /\ tokens' = tokens \ EntriesOf(tokens, k)

C12_Idempotent == [](C12_Answered) /\ [][C12_Step]_vars

C12_Witness ==
    /\ settled[KeyI].st = "unregistered"
    /\ \E g, h \in Handlers :
          /\ http[g].pc = "done" /\ http[g].route = "unregister"
          /\ http[h].pc = "done" /\ http[h].route = "unregister"
          /\ http[g].req.trade_pubkey = KeyI
          /\ http[h].req.trade_pubkey = KeyI
          /\ http[g].removed /\ ~http[g].overlap
          /\ ~http[h].removed
          /\ http[h].resp.val.status = 200

\* The payload decrypt_token parsed, when it got as far as parsing one.
PayloadReached ==
    /\ opened.some
    /\ \/ opened.val.result.ok
       \/ opened.val.result.err \in
              {"InvalidTokenLength", "InvalidPlatform", "InvalidTokenEncoding"}

LengthField(payload) == payload[2] * 256 + payload[3]

\* C13: a blob that is not exactly 281 bytes long gets InvalidTokenSize, with
\* no key parsing, ECDH, key derivation or AEAD step made; a blob of 281
\* bytes never gets InvalidTokenSize.
C13_SizeFirst ==
    opened.some =>
        LET length == 33 + 12 + Len(wire.val.ct.pt) + 16
        IN  /\ length # 281 =>
                  /\ opened.val.result = Err("InvalidTokenSize")
                  /\ opened.val.work = <<>>
            /\ length = 281 =>
                  /\ opened.val.result # Err("InvalidTokenSize")
                  /\ opened.val.work # <<>>

C13_Witness ==
    /\ opened.some
    /\ Len(wire.val.ct.pt) = 219
    /\ ~wire.val.eph.valid
    /\ ~wire.val.ct.intact
    /\ opened.val.result = Err("InvalidTokenSize")

\* C14: with a valid platform byte, a length field of 218 or more gets
\* InvalidTokenLength; a length field L of at most 217 over valid UTF-8 is
\* accepted with bytes 3..3+L of the payload as the device token.
C14_LengthBound ==
    PayloadReached =>
        LET payload == wire.val.ct.pt
            L == LengthField(payload)
            bytes == [i \in 1..L |-> payload[3 + i]]
        IN  payload[1] \in {1, 2} =>
                /\ L >= 218 => opened.val.result = Err("InvalidTokenLength")
                /\ (L <= 217 /\ from_utf8(bytes).some) =>
                      /\ opened.val.result.ok
                      /\ opened.val.result.val.device_token = bytes
                /\ (L <= 217 /\ ~from_utf8(bytes).some) =>
                      opened.val.result = Err("InvalidTokenEncoding")

C14_Witness ==
    /\ PayloadReached
    /\ plain = None
    /\ wire.val.ct.pt[1] = 1
    /\ LengthField(wire.val.ct.pt) = 217
    /\ opened.val.result.ok
    /\ Len(opened.val.result.val.device_token) = 217
    /\ opened.val.result.val.device_token[217] = 65

\* C15: what a client encrypted under the server's public key decrypts with
\* the server's secret key to the same (platform, device_token), whatever the
\* padding bytes.
C15_RoundTrip ==
    (plain.some /\ opened.some) =>
        opened.val.result =
            Ok([platform |-> plain.val.platform,
                device_token |-> plain.val.device_token])

C15_Witness ==
    /\ plain.some
    /\ opened.some
    /\ plain.val.platform = "Ios"
    /\ plain.val.device_token = TokenB
    /\ wire.val.ct.pt[220] = 255
    /\ opened.val.result.ok

\* C19: a decrypted payload whose platform byte is not a known one gets
\* InvalidPlatform whatever its length field is.
C19_PlatformFirst ==
    (PayloadReached /\ wire.val.ct.pt[1] \notin {1, 2}) =>
        opened.val.result = Err("InvalidPlatform")

\* A registration request whose 281-byte blob decrypt_token refused.
DecryptionRefused(h) ==
    /\ http[h].pc = "done"
    /\ http[h].route = "register"
    /\ WellFormedKey(http[h].req.trade_pubkey)
    /\ LET blob == Base64Decode(http[h].req.encrypted_token)
       IN  /\ blob.some
           /\ BlobLen(blob.val) = 281
           /\ ~decrypt_token(ServerSecret, blob.val).ok

\* C16: any two registration requests whose 281-byte blobs fail decryption
\* receive the same response, whatever made the decryption fail.
C16_SameResponse ==
    \A g, h \in Handlers :
        (DecryptionRefused(g) /\ DecryptionRefused(h)) => http[g].resp = http[h].resp

\* C17: a notification is taken only when the handling of the one before has
\* ended, and it is the oldest one delivered and not yet handled; while the
\* backends are tried for an event, the calls made belong to that event and
\* are added one after the other.
C17_Step ==
    /\ Len(inbox') < Len(inbox) =>
          /\ lpc = "listening"
          /\ event' = Some(Head(inbox))
          /\ inbox' = Tail(inbox)
          /\ calls' = <<>>
    /\ (calls' # calls /\ calls' # <<>>) =>
          /\ lpc = "sending"
          /\ event' = event
          /\ Len(calls') = Len(calls) + 1
          /\ SubSeq(calls', 1, Len(calls)) = calls
          /\ Len(inbox') >= Len(inbox)
          /\ SubSeq(inbox', 1, Len(inbox)) = inbox

C17_InOrder == [][C17_Step]_vars

C17_Witness ==
    /\ lpc = "sending"
    /\ Len(calls) = 1
    /\ ~calls[1].ok
    /\ idx <= Len(push_services)
    /\ inbox # <<>>
    /\ Some(Head(inbox)) # event

\* The positions of the tags that have at least two elements, the first "p".
Qualifying(tags) == {i \in 1..Len(tags) : Len(tags[i]) >= 2 /\ tags[i][1] = "p"}

\* C18: the recipient of a kind-1059 event is the second element of its first
\* tag with at least two elements whose first is "p"; when no tag qualifies
\* there is no recipient and the closure returns without a registry lookup.
C18_Recipient ==
    (event.some /\ event.val.kind = 1059) =>
        LET tags == event.val.tags
            q == Qualifying(tags)
        IN  /\ q = {} =>
                  /\ trade_pubkey = None
                  /\ registered_token = None
                  /\ lpc = "listening"
            /\ q # {} =>
                  \E i \in q :
                      /\ \A j \in 1..(i - 1) : j \notin q
                      /\ trade_pubkey = Some(tags[i][2])
                      /\ lpc \in {"lookup", "listening", "panicked"}
                      /\ lpc = "panicked" <=> tags[i][2].len < 16

C18_Witness ==
    /\ event.some
    /\ event.val.kind = 1059
    /\ event.val.tags = <<<<"p">>, <<"e", KeyI>>, <<"p", KeyJ, "wss://relay">>>>
    /\ trade_pubkey = Some(KeyJ)
    /\ lpc = "lookup"

\* C20: an attempt in which the relay could not be added or connected to
\* never reaches Subscribed: the listener is Subscribed only over a
\* connection that was made.
C20_NoSubscriptionWithoutRelay ==
    ListenerState = "Subscribed" => connected

\* C21: the handling of a kind-1059 event never aborts the listener,
\* whatever the value of its p tag.
C21_HandlerNeverAborts ==
    ListenerState # "Panicked"

\* The listener is starting a send_to_token call.
SendStarting ==
    /\ lpc = "sending"
    /\ idx <= Len(push_services)
    /\ registered_token.some
    /\ registered_token.val.platform \in push_services[idx].platforms

\* C22 (as stated): once an unregister of the recipient has completed, with
\* no register call on it since, the listener starts no send_to_token call
\* for an event addressed to it.
C22_NoSendAfterUnregister ==
    (trade_pubkey.some /\ trade_pubkey.val \in ValidKeys) =>
        (settled[trade_pubkey.val].st = "unregistered" => ~SendStarting)

\* C22 (amended): an event whose lookup came after a completed unregister of
\* its recipient gets no send_to_token call; the backends are tried only with
\* the entry the event's own lookup returned, also when the recipient has
\* been unregistered since.
C22_SendsUseLookup ==
    trade_pubkey.some =>
        /\ seen.st = "unregistered" =>
              /\ registered_token = None
              /\ calls = <<>>
              /\ lpc # "sending"
        /\ lpc = "sending" => registered_token.some
        /\ \A i \in 1..Len(calls) :
              /\ registered_token.some
              /\ calls[i].args.device_token = registered_token.val.device_token
              /\ calls[i].args.platform = registered_token.val.platform

C22_Witness ==
    /\ trade_pubkey = Some(KeyI)
    /\ seen.st = "registered"
    /\ settled[KeyI].st = "unregistered"
    /\ tokens = {}
    /\ SendStarting
    /\ Len(calls) = 1
    /\ ~calls[1].ok

====
